---- MODULE Spec2Model ----
(***************************************************************************)
(* A model of backend/main.py: the progression calculator, the daily lock, *)
(* the XP / level machine, the analytics aggregation, and the whole-file   *)
(* JSON store the five HTTP handlers read and rewrite.                     *)
(*                                                                         *)
(* Strings that the program orders or produces by formatting (dates) are   *)
(* sequences of character codes, so that strftime is a real conversion and *)
(* sorted(..., key=date) is Python's string order.  Other strings are TLA+ *)
(* strings.  A calendar day is its offset in days from START_DATE.         *)
(***************************************************************************)
EXTENDS Integers, Sequences, FiniteSets, TLC

VARIABLES db, today, last, threads

vars == <<db, today, last, threads>>

(***************************************************************************)
(* Bounds of the model.                                                    *)
(***************************************************************************)
\* log entries in one copy of the store (all users together)
MaxLogs == 2
\* the same, when one user with the default profile is followed further
MaxDefaultLogs == 4
\* the same, in the copy a request in flight holds
MaxThreadLogs == 1
\* the clock starts DaysBeforeStart days before START_DATE ...
DaysBeforeStart == 2
\* ... and stops LastDay days after it
LastDay == 1

(***************************************************************************)
(* datetime.date and strftime("%Y-%m-%d").                                 *)
(***************************************************************************)
START_YEAR == 2026

IsLeap(y) == (y % 4 = 0 /\ y % 100 # 0) \/ y % 400 = 0

DaysInMonth(y, m) ==
    IF m = 2 THEN (IF IsLeap(y) THEN 29 ELSE 28)
    ELSE IF m \in {4, 6, 9, 11} THEN 30 ELSE 31

RECURSIVE DateFrom(_, _, _)
\* the calendar date n days after the first of month m of year y
DateFrom(y, m, n) ==
    IF n < DaysInMonth(y, m) THEN [year |-> y, month |-> m, day |-> n + 1]
    ELSE IF m = 12 THEN DateFrom(y + 1, 1, n - DaysInMonth(y, m))
    ELSE DateFrom(y, m + 1, n - DaysInMonth(y, m))

\* START_DATE + n days, n >= 0
DateOf(n) == DateFrom(START_YEAR, 1, n)

Pow10(k) == IF k = 0 THEN 1 ELSE IF k = 1 THEN 10 ELSE IF k = 2 THEN 100 ELSE 1000

\* n in decimal, zero padded to w characters (character codes, "0" = 48)
Pad(n, w) == [i \in 1..w |-> 48 + ((n \div Pow10(w - i)) % 10)]

\* "-" = 45
strftime(d) == Pad(d.year, 4) \o <<45>> \o Pad(d.month, 2) \o <<45>> \o Pad(d.day, 2)

RECURSIVE StrLess(_, _)
\* Python's s < t on strings
StrLess(s, t) ==
    IF t = <<>> THEN FALSE
    ELSE IF s = <<>> THEN TRUE
    ELSE IF Head(s) # Head(t) THEN Head(s) < Head(t)
    ELSE StrLess(Tail(s), Tail(t))

Max(a, b) == IF a >= b THEN a ELSE b
Min(a, b) == IF a <= b THEN a ELSE b

\* calculate_progression without the cap: 3 + (weeks_passed // 3)
progression_uncapped(now) ==
    LET calc_date    == Max(now, 0)
        days_passed  == calc_date
        weeks_passed == days_passed \div 7
        gym_sets     == 3 + (weeks_passed \div 3)
        d            == DateOf(calc_date)
        phase_idx    == IF d.year > START_YEAR THEN 3
                        ELSE IF d.month = 1 THEN 0
                        ELSE IF d.month = 2 THEN 1
                        ELSE IF d.month = 3 THEN 2
                        ELSE 3
    IN  [days_passed  |-> days_passed,
         weeks_passed |-> weeks_passed,
         gym_sets     |-> gym_sets,
         phase_index  |-> phase_idx,
         date_str     |-> strftime(d)]

\* calculate_progression with a set more every 4 weeks: weeks_passed // 4
progression_every_4_weeks(now) ==
    LET calc_date    == Max(now, 0)
        days_passed  == calc_date
        weeks_passed == days_passed \div 7
        gym_sets     == Min(6, 3 + (weeks_passed \div 4))
        d            == DateOf(calc_date)
        phase_idx    == IF d.year > START_YEAR THEN 3
                        ELSE IF d.month = 1 THEN 0
                        ELSE IF d.month = 2 THEN 1
                        ELSE IF d.month = 3 THEN 2
                        ELSE 3
    IN  [days_passed  |-> days_passed,
         weeks_passed |-> weeks_passed,
         gym_sets     |-> gym_sets,
         phase_index  |-> phase_idx,
         date_str     |-> strftime(d)]

\* calculate_progression without the test of calc_date.year
progression_by_month(now) ==
    LET calc_date    == Max(now, 0)
        days_passed  == calc_date
        weeks_passed == days_passed \div 7
        gym_sets     == Min(6, 3 + (weeks_passed \div 3))
        d            == DateOf(calc_date)
        phase_idx    == IF d.month = 1 THEN 0
                        ELSE IF d.month = 2 THEN 1
                        ELSE IF d.month = 3 THEN 2
                        ELSE 3
    IN  [days_passed  |-> days_passed,
         weeks_passed |-> weeks_passed,
         gym_sets     |-> gym_sets,
         phase_index  |-> phase_idx,
         date_str     |-> strftime(d)]

calculate_progression(now) ==
    LET calc_date    == Max(now, 0)
        days_passed  == calc_date
        weeks_passed == days_passed \div 7
        gym_sets     == Min(6, 3 + (weeks_passed \div 3))
        d            == DateOf(calc_date)
        phase_idx    == IF d.year > START_YEAR THEN 3
                        ELSE IF d.month = 1 THEN 0
                        ELSE IF d.month = 2 THEN 1
                        ELSE IF d.month = 3 THEN 2
                        ELSE 3
    IN  [days_passed  |-> days_passed,
         weeks_passed |-> weeks_passed,
         gym_sets     |-> gym_sets,
         phase_index  |-> phase_idx,
         date_str     |-> strftime(d)]

(***************************************************************************)
(* The data model and the requests the clients send.                       *)
(***************************************************************************)
Users == {"u1", "u2"}

\* the action types the clients send ("workout" is handled as "academic" and
\* "skill" are)
ActionTypes == {"academic", "skill", "reflection"}

\* UserProfile with the defaults of the pydantic model
UserProfile(u) ==
    [username |-> u, level |-> 1, xp |-> 0, xp_limit |-> 100,
     logs |-> <<>>, reflections |-> <<>>]

\* login bodies that set the optional fields themselves (nothing validates
\* them): one just below its threshold, one with a negative threshold
CustomProfiles(u) ==
    {[username |-> u, level |-> 1, xp |-> 90, xp_limit |-> 100,
      logs |-> <<>>, reflections |-> <<>>],
     [username |-> u, level |-> 3, xp |-> -10, xp_limit |-> -3,
      logs |-> <<>>, reflections |-> <<>>]}

\* every user may log in with the defaults, the first one also otherwise
LoginBodies == {UserProfile(u) : u \in Users} \cup CustomProfiles("u1")

\* the date a client puts in a reflection: START_DATE in ISO form
ReflectionDates == {strftime(DateOf(0))}

ReflectionEntries ==
    [date : ReflectionDates, academic_topic : {"algebra"},
     skill_topic : {"python"}, user_notes : {"went well"}]

ActionRequests == [username : Users, action_type : ActionTypes]

\* the store: a dict from username to user record
load_db(file) == file

EmptyStore == [u \in {} |-> UserProfile(u)]

Put(store, u, rec) == [k \in DOMAIN store \cup {u} |-> IF k = u THEN rec ELSE store[k]]

RECURSIVE SumLen(_, _)
SumLen(store, S) ==
    IF S = {} THEN 0
    ELSE LET u == CHOOSE k \in S : TRUE
         IN  Len(store[u].logs) + SumLen(store, S \ {u})

TotalLogs(store) == SumLen(store, DOMAIN store)

\* what a handler did: the store it holds at return, whether it called
\* save_db, and its HTTP response
Result(store, saved, status, body) ==
    [db |-> store, saved |-> saved, status |-> status, body |-> body]

\* NotFound as get_analytics answers an unknown user: 200 and {}
NotFoundAsEmpty(store) == Result(store, FALSE, 200, [empty |-> TRUE])

NotFound(store) == Result(store, FALSE, 404, [detail |-> "User not found"])

\* IntTimesOneAndHalf with floor division (x * 3 // 2)
FloorTimesOneAndHalf(x) == (3 * x) \div 2

\* int(x * 1.5): the float product truncated toward zero
IntTimesOneAndHalf(x) == IF x >= 0 THEN (3 * x) \div 2 ELSE -((3 * (-x)) \div 2)

\* list_append as seq.insert(0, e)
list_prepend(seq, e) == <<e>> \o seq

\* seq.append(e)
list_append(seq, e) == Append(seq, e)

\* any(f(e) for e in seq)
AnyOf(seq, f(_)) == \E i \in 1..Len(seq) : f(seq[i])

(***************************************************************************)
(* The endpoints, as functions of the loaded store, the request and the    *)
(* clock.                                                                  *)
(***************************************************************************)
\* login without the membership test: the body always replaces the record
login_overwrite(store, user) ==
    LET db1 == Put(store, user.username, user)
    IN  Result(db1, TRUE, 200, db1[user.username])

login(store, user) ==
    IF user.username \notin DOMAIN store
    THEN LET db1 == Put(store, user.username, user)
         IN  Result(db1, TRUE, 200, db1[user.username])
    ELSE Result(store, FALSE, 200, store[user.username])

\* Locks with the reflection lock read from today's logs
LocksFromLogs(user, today_str) ==
    LET today_logs == SelectSeq(user.logs, LAMBDA log : log.date = today_str)
    IN  [academic   |-> AnyOf(today_logs, LAMBDA l : l.action_type = "academic"),
         skill      |-> AnyOf(today_logs, LAMBDA l : l.action_type = "skill"),
         workout    |-> AnyOf(today_logs, LAMBDA l : l.action_type = "workout"),
         reflection |-> AnyOf(today_logs, LAMBDA l : l.action_type = "reflection")]

Locks(user, today_str) ==
    LET today_logs == SelectSeq(user.logs, LAMBDA log : log.date = today_str)
    IN  [academic   |-> AnyOf(today_logs, LAMBDA l : l.action_type = "academic"),
         skill      |-> AnyOf(today_logs, LAMBDA l : l.action_type = "skill"),
         workout    |-> AnyOf(today_logs, LAMBDA l : l.action_type = "workout"),
         reflection |-> AnyOf(user.reflections, LAMBDA r : r.date = today_str)]

get_dashboard(store, username, now) ==
    IF username \notin DOMAIN store THEN NotFound(store)
    ELSE LET user        == store[username]
             progression == calculate_progression(now)
             today_str   == progression.date_str
         IN  Result(store, FALSE, 200,
                    [user |-> user, progression |-> progression,
                     locks |-> Locks(user, today_str)])

\* LevelUp starting the new level at zero: user.xp = 0 for user.xp -= user.xp_limit
LevelUpResetXp(user) ==
    IF user.xp >= user.xp_limit
    THEN [user EXCEPT !.level    = @ + 1,
                      !.xp       = 0,
                      !.xp_limit = IntTimesOneAndHalf(@)]
    ELSE user

\* LevelUp without the new threshold
LevelUpKeepLimit(user) ==
    IF user.xp >= user.xp_limit
    THEN [user EXCEPT !.level = @ + 1,
                      !.xp    = @ - user.xp_limit]
    ELSE user

LevelUp(user) ==
    IF user.xp >= user.xp_limit
    THEN [user EXCEPT !.level    = @ + 1,
                      !.xp       = @ - user.xp_limit,
                      !.xp_limit = IntTimesOneAndHalf(@)]
    ELSE user

\* TaskDoneToday comparing the wrong field of the entry
TaskDoneTodayByNote(user, today_str, action_type) ==
    LET today_logs == SelectSeq(user.logs, LAMBDA log : log.date = today_str)
    IN  AnyOf(today_logs, LAMBDA l : l.note = action_type)

\* TaskDoneToday comparing log['date'] with calc_date, a date and never equal
\* to a str: no entry is of today
TaskDoneTodayByDateObject(user, today_str, action_type) ==
    LET today_logs == SelectSeq(user.logs, LAMBDA log : FALSE)
    IN  AnyOf(today_logs, LAMBDA l : l.action_type = action_type)

\* TaskDoneToday without the date: any(log.action_type == ... for log in user.logs)
TaskDoneAnyDay(user, today_str, action_type) ==
    AnyOf(user.logs, LAMBDA l : l.action_type = action_type)

\* the lock check: the action type is already logged under today's date
TaskDoneToday(user, today_str, action_type) ==
    LET today_logs == SelectSeq(user.logs, LAMBDA log : log.date = today_str)
    IN  AnyOf(today_logs, LAMBDA l : l.action_type = action_type)

complete_task(store, req, now) ==
    IF req.username \notin DOMAIN store THEN NotFound(store)
    ELSE LET user        == store[req.username]
             progression == calculate_progression(now)
             today_str   == progression.date_str
         IN  IF TaskDoneToday(user, today_str, req.action_type)
             THEN Result(store, FALSE, 400, [detail |-> "Task already completed today."])
             ELSE LET xp_gain == 30
                      new_log == [date        |-> today_str,
                                  action_type |-> req.action_type,
                                  xp          |-> xp_gain,
                                  note        |-> "Completed " \o req.action_type]
                      user1   == [user EXCEPT !.xp   = @ + xp_gain,
                                              !.logs = list_append(@, new_log)]
                      user2   == LevelUp(user1)
                  IN  Result(Put(store, req.username, user2), TRUE, 200,
                             [status |-> "success", new_xp |-> user2.xp,
                              new_level |-> user2.level])

\* submit_reflection behind the daily lock of the other categories
submit_reflection_locked(store, req, username) ==
    IF username \notin DOMAIN store THEN NotFound(store)
    ELSE LET user     == store[username]
             xp_bonus == 20
             user1    == [user EXCEPT
                            !.reflections = list_append(@, req),
                            !.xp          = @ + xp_bonus,
                            !.logs        = list_append(@, [date        |-> req.date,
                                                            action_type |-> "reflection",
                                                            xp          |-> xp_bonus,
                                                            note        |-> "Daily Reflection Submitted"])]
         IN  IF AnyOf(user.reflections, LAMBDA r : r.date = req.date)
             THEN Result(store, FALSE, 400, [detail |-> "Task already completed today."])
             ELSE Result(Put(store, username, user1), TRUE, 200, [status |-> "success"])

submit_reflection(store, req, username) ==
    IF username \notin DOMAIN store THEN NotFound(store)
    ELSE LET user     == store[username]
             xp_bonus == 20
             user1    == [user EXCEPT
                            !.reflections = list_append(@, req),
                            !.xp          = @ + xp_bonus,
                            !.logs        = list_append(@, [date        |-> req.date,
                                                            action_type |-> "reflection",
                                                            xp          |-> xp_bonus,
                                                            note        |-> "Daily Reflection Submitted"])]
         IN  Result(Put(store, username, user1), TRUE, 200, [status |-> "success"])

RECURSIVE InsertByDate(_, _)
\* e put into the date-sorted seq after every entry whose date is not greater
InsertByDate(seq, e) ==
    IF seq = <<>> THEN <<e>>
    ELSE IF StrLess(e.date, Head(seq).date) THEN <<e>> \o seq
    ELSE <<Head(seq)>> \o InsertByDate(Tail(seq), e)

RECURSIVE SortedByDate(_)
\* sorted(seq, key=lambda x: x['date']): stable, ascending in string order
SortedByDate(seq) ==
    IF seq = <<>> THEN <<>>
    ELSE InsertByDate(SortedByDate(SubSeq(seq, 1, Len(seq) - 1)), seq[Len(seq)])

RECURSIVE RunningXpNoCarry(_, _)
\* RunningXp without the carry: running_xp = log['xp'] for += log['xp']
RunningXpNoCarry(logs, acc) ==
    IF logs = <<>> THEN <<>>
    ELSE <<acc + Head(logs).xp>> \o RunningXpNoCarry(Tail(logs), acc)

RECURSIVE RunningXp(_, _)
\* the running totals of the entries' xp, starting from acc
RunningXp(logs, acc) ==
    IF logs = <<>> THEN <<>>
    ELSE <<acc + Head(logs).xp>> \o RunningXp(Tail(logs), acc + Head(logs).xp)

get_analytics(store, username) ==
    IF username \notin DOMAIN store
    THEN Result(store, FALSE, 200, [empty |-> TRUE])
    ELSE LET user        == store[username]
             logs        == SortedByDate(user.logs)
             reflections == SortedByDate(user.reflections)
         IN  Result(store, FALSE, 200,
                    [xp_chart |->
                        [labels |-> [i \in 1..Len(logs) |-> logs[i].date],
                         data   |-> RunningXp(logs, 0)],
                     consistency_chart |->
                        [labels |-> [i \in 1..Len(reflections) |-> reflections[i].date],
                         data   |-> [i \in 1..Len(reflections) |-> 1]]])

(***************************************************************************)
(* Requests served one at a time: each handler runs from load_db to its    *)
(* return before the next request starts.                                  *)
(***************************************************************************)
Requests ==
    [op : {"login"}, user : LoginBodies]
    \cup [op : {"get_dashboard", "get_analytics"}, username : Users]
    \cup [op : {"complete_task"}, req : ActionRequests]
    \cup [op : {"submit_reflection"}, req : ReflectionEntries, username : Users]

Handle(store, r, now) ==
    CASE r.op = "login"             -> login(store, r.user)
      [] r.op = "get_dashboard"     -> get_dashboard(store, r.username, now)
      [] r.op = "complete_task"     -> complete_task(store, r.req, now)
      [] r.op = "submit_reflection" -> submit_reflection(store, r.req, r.username)
      [] r.op = "get_analytics"     -> get_analytics(store, r.username)

\* save_db writing back key by key, keeping the keys it does not hold
save_db_merge(file, res) ==
    IF res.saved
    THEN [k \in DOMAIN file \cup DOMAIN res.db |->
             IF k \in DOMAIN res.db THEN res.db[k] ELSE file[k]]
    ELSE file

\* save_db rewrites the whole file with the handler's copy of the store
save_db(file, res) == IF res.saved THEN res.db ELSE file

NoRequest == [req |-> [op |-> "none"], status |-> 0, body |-> [detail |-> ""]]

Idle == [pc |-> "idle", req |-> [op |-> "none"], mem |-> EmptyStore,
         status |-> 0, body |-> [detail |-> ""]]

Threads == {"t1", "t2"}

Init ==
    /\ db = EmptyStore
    /\ today = 0 - DaysBeforeStart
    /\ last = NoRequest
    /\ threads = [t \in Threads |-> Idle]

Serve(r, cap) ==
    LET res == Handle(load_db(db), r, today)
    IN  /\ TotalLogs(res.db) <= cap
        /\ db' = save_db(db, res)
        /\ last' = [req |-> r, status |-> res.status, body |-> res.body]
        /\ UNCHANGED <<today, threads>>

Login == \E r \in Requests : r.op = "login" /\ Serve(r, MaxLogs)

GetDashboard == \E r \in Requests : r.op = "get_dashboard" /\ Serve(r, MaxLogs)

CompleteTask == \E r \in Requests : r.op = "complete_task" /\ Serve(r, MaxLogs)

SubmitReflection == \E r \in Requests : r.op = "submit_reflection" /\ Serve(r, MaxLogs)

GetAnalytics == \E r \in Requests : r.op = "get_analytics" /\ Serve(r, MaxLogs)

\* midnight: datetime.date.today() moves to the next day
Tick ==
    /\ today < LastDay
    /\ today' = today + 1
    /\ UNCHANGED <<db, last, threads>>

Next ==
    \/ Login
    \/ GetDashboard
    \/ CompleteTask
    \/ SubmitReflection
    \/ GetAnalytics
    \/ Tick

Spec == Init /\ [][Next]_vars

(***************************************************************************)
(* The same server, when its one user logs in with the default profile.    *)
(***************************************************************************)
DefaultRequests ==
    {r \in Requests :
        IF r.op = "login" THEN r.user = UserProfile("u1")
        ELSE IF r.op = "complete_task" THEN r.req.username = "u1"
        ELSE r.username = "u1"}

DefaultLogin == \E r \in DefaultRequests : r.op = "login" /\ Serve(r, MaxDefaultLogs)

DefaultGetDashboard == \E r \in DefaultRequests : r.op = "get_dashboard" /\ Serve(r, MaxDefaultLogs)

DefaultCompleteTask == \E r \in DefaultRequests : r.op = "complete_task" /\ Serve(r, MaxDefaultLogs)

DefaultSubmitReflection == \E r \in DefaultRequests : r.op = "submit_reflection" /\ Serve(r, MaxDefaultLogs)

DefaultGetAnalytics == \E r \in DefaultRequests : r.op = "get_analytics" /\ Serve(r, MaxDefaultLogs)

NextDefault ==
    \/ DefaultLogin
    \/ DefaultGetDashboard
    \/ DefaultCompleteTask
    \/ DefaultSubmitReflection
    \/ DefaultGetAnalytics
    \/ Tick

SpecDefault == Init /\ [][NextDefault]_vars

(***************************************************************************)
(* Requests in flight at once.  The endpoints are plain def functions, so  *)
(* the server runs them on worker threads; nothing locks DATA_FILE.  A     *)
(* request is two steps: load_db, then the rest of the handler up to       *)
(* save_db and the return.  Reading and writing the file are each taken as *)
(* one step.                                                               *)
(***************************************************************************)
ThreadRequests ==
    {r \in Requests :
        CASE r.op = "login"             -> r.user \in {UserProfile(u) : u \in Users}
          [] r.op = "complete_task"     -> r.req.username = "u1"
                                           /\ r.req.action_type = "academic"
          [] r.op = "submit_reflection" -> r.username = "u1"
                                           /\ r.req.date = strftime(DateOf(0))
          [] OTHER                      -> r.username = "u1"}

Load(t) ==
    /\ threads[t].pc = "idle"
    /\ \E r \in ThreadRequests :
          threads' = [threads EXCEPT ![t] = [@ EXCEPT !.pc  = "loaded",
                                                      !.req = r,
                                                      !.mem = load_db(db)]]
    /\ UNCHANGED <<db, today, last>>

Finish(t) ==
    /\ threads[t].pc = "loaded"
    /\ LET res == Handle(threads[t].mem, threads[t].req, today)
       IN  /\ TotalLogs(res.db) <= MaxThreadLogs
           /\ db' = save_db(db, res)
           /\ threads' = [threads EXCEPT ![t] = [@ EXCEPT !.pc     = "done",
                                                          !.mem    = EmptyStore,
                                                          !.status = res.status,
                                                          !.body   = res.body]]
    /\ UNCHANGED <<today, last>>

\* the worker thread is free for the next request
Return(t) ==
    /\ threads[t].pc = "done"
    /\ threads' = [threads EXCEPT ![t] = Idle]
    /\ UNCHANGED <<db, today, last>>

LoadStep == \E t \in Threads : Load(t)

FinishStep == \E t \in Threads : Finish(t)

ReturnStep == \E t \in Threads : Return(t)

NextThreads ==
    \/ LoadStep
    \/ FinishStep
    \/ ReturnStep
    \/ Tick

SpecThreads == Init /\ [][NextThreads]_vars

(***************************************************************************)
(* Complete-task requests in flight at once, for one user created with the *)
(* default profile (empty logs).                                           *)
(***************************************************************************)
\* log entries of the user, in the file and in the copies in flight
MaxTaskLogs == 2

TaskRequests ==
    {r \in Requests :
        CASE r.op = "login"         -> r.user = UserProfile("u1")
          [] r.op = "complete_task" -> r.req.username = "u1"
                                       /\ r.req.action_type \in {"academic", "skill"}
          [] OTHER                  -> FALSE}

TaskLoad(t) ==
    /\ threads[t].pc = "idle"
    /\ \E r \in TaskRequests :
          threads' = [threads EXCEPT ![t] = [@ EXCEPT !.pc  = "loaded",
                                                      !.req = r,
                                                      !.mem = load_db(db)]]
    /\ UNCHANGED <<db, today, last>>

TaskFinish(t) ==
    /\ threads[t].pc = "loaded"
    /\ LET res == Handle(threads[t].mem, threads[t].req, today)
       IN  /\ TotalLogs(res.db) <= MaxTaskLogs
           /\ db' = save_db(db, res)
           /\ threads' = [threads EXCEPT ![t] = [@ EXCEPT !.pc     = "done",
                                                          !.mem    = EmptyStore,
                                                          !.status = res.status,
                                                          !.body   = res.body]]
    /\ UNCHANGED <<today, last>>

TaskLoadStep == \E t \in Threads : TaskLoad(t)

TaskFinishStep == \E t \in Threads : TaskFinish(t)

NextTasks ==
    \/ TaskLoadStep
    \/ TaskFinishStep
    \/ ReturnStep
    \/ Tick

SpecTasks == Init /\ [][NextTasks]_vars

(***************************************************************************)
(* Analytics of a history.  A login body carries logs and reflections of   *)
(* its own (the dates and the xp are whatever the client wrote), login     *)
(* stores them as they are, and get_analytics charts them.                 *)
(***************************************************************************)
\* log entries of a stored history
MaxChartLogs == 3
\* reflections of a stored history
MaxChartReflections == 2

\* "2026-01-01", "2026-01-02", and the first of January written "2026-1-1"
ChartDates ==
    {strftime(DateOf(0)), strftime(DateOf(1)), <<50, 48, 50, 54, 45, 49, 45, 49>>}

ChartLogEntries ==
    [date : ChartDates, action_type : {"academic"}, xp : {-5, 30},
     note : {"Completed academic"}]

ChartReflectionEntries ==
    [date : ChartDates, academic_topic : {"algebra"},
     skill_topic : {"python"}, user_notes : {"went well"}]

SeqsUpTo(S, n) == UNION {[1..k -> S] : k \in 0..n}

HistoryBodies ==
    {[UserProfile("u1") EXCEPT !.logs = l, !.reflections = r] :
        l \in SeqsUpTo(ChartLogEntries, MaxChartLogs),
        r \in SeqsUpTo(ChartReflectionEntries, MaxChartReflections)}

\* the store file after the one login that wrote the history b
InitAnalytics ==
    /\ \E b \in HistoryBodies : db = login(EmptyStore, b).db
    /\ today = 0
    /\ last = NoRequest
    /\ threads = [t \in Threads |-> Idle]

HistoryGetAnalytics ==
    \E u \in Users : Serve([op |-> "get_analytics", username |-> u], MaxChartLogs)

NextAnalytics == HistoryGetAnalytics

SpecAnalytics == InitAnalytics /\ [][NextAnalytics]_vars

(***************************************************************************)
(* The progression over the campaign: the clock runs from before the start *)
(* to April of the year after it, and the dashboard is read on any day.    *)
(***************************************************************************)
\* the last day of the clock: 2027-04-06
LastProgressDay == 460

ProgressRequests ==
    {[op |-> "login", user |-> UserProfile("u1")],
     [op |-> "get_dashboard", username |-> "u1"]}

ProgressLogin ==
    \E r \in ProgressRequests : r.op = "login" /\ Serve(r, MaxLogs)

ProgressGetDashboard ==
    \E r \in ProgressRequests : r.op = "get_dashboard" /\ Serve(r, MaxLogs)

ProgressTick ==
    /\ today < LastProgressDay
    /\ today' = today + 1
    /\ UNCHANGED <<db, last, threads>>

NextProgress ==
    \/ ProgressLogin
    \/ ProgressGetDashboard
    \/ ProgressTick

SpecProgress == Init /\ [][NextProgress]_vars

(***************************************************************************)
(* Levels and thresholds.  One user, created by a login whose body sets    *)
(* level, xp and xp_limit (nothing validates them), then awarded XP.       *)
(***************************************************************************)
\* log entries of the user
MaxLevelLogs == 3

\* the default profile and two on its ladder of thresholds (100, 150), and
\* profiles with the thresholds 2, 1, 0 and -3
LevelBodies ==
    {[UserProfile("u1") EXCEPT !.level = b[1], !.xp = b[2], !.xp_limit = b[3]] :
        b \in {<<1, 0, 100>>, <<1, 90, 100>>, <<2, 140, 150>>,
               <<1, 0, 2>>, <<1, 0, 1>>, <<1, 0, 0>>, <<3, -10, -3>>}}

LevelRequests ==
    [op : {"login"}, user : LevelBodies]
    \cup {r \in Requests : r.op = "complete_task" /\ r.req.username = "u1"}
    \cup {r \in Requests : r.op = "submit_reflection" /\ r.username = "u1"}

LevelLogin == \E r \in LevelRequests : r.op = "login" /\ Serve(r, MaxLevelLogs)

LevelCompleteTask ==
    \E r \in LevelRequests : r.op = "complete_task" /\ Serve(r, MaxLevelLogs)

LevelSubmitReflection ==
    \E r \in LevelRequests : r.op = "submit_reflection" /\ Serve(r, MaxLevelLogs)

NextLevels ==
    \/ LevelLogin
    \/ LevelCompleteTask
    \/ LevelSubmitReflection
    \/ Tick

SpecLevels == Init /\ [][NextLevels]_vars

(***************************************************************************)
(* Vocabulary of the properties.                                           *)
(***************************************************************************)
\* the date string the handlers compute from the clock
TodayStr(now) == strftime(DateOf(Max(now, 0)))

\* a step in which the server answers request r (the clock and the worker
\* threads stand still, the answer to r is the latest one)
Answers(r) == today' = today /\ threads' = threads /\ last'.req = r

IsPrefix(s, t) == Len(s) <= Len(t) /\ SubSeq(t, 1, Len(s)) = s

CompleteTaskRequest(u, c) ==
    [op |-> "complete_task", req |-> [username |-> u, action_type |-> c]]

\* the log entry a successful complete-task of c on date d leaves
CompletedEntry(d, c) ==
    [date |-> d, action_type |-> c, xp |-> 30, note |-> "Completed " \o c]

InLogs(user, e) == \E i \in 1..Len(user.logs) : user.logs[i] = e

(***************************************************************************)
(* C1: once complete-task has succeeded for a user, an action type and a   *)
(* date, every later complete-task of that user for the same action type   *)
(* on the same date is answered 400 and leaves the store as it was.        *)
(***************************************************************************)
C1_RepeatedTaskRejected ==
    [][\A u \in Users, c \in ActionTypes :
          (/\ Answers(CompleteTaskRequest(u, c))
           /\ u \in DOMAIN db
           /\ InLogs(db[u], CompletedEntry(TodayStr(today), c)))
          => (last'.status = 400 /\ db' = db)]_vars

C1_Witness ==
    /\ last.req.op = "complete_task"
    /\ last.status = 400
    /\ last.req.req.username \in DOMAIN db
    /\ InLogs(db[last.req.req.username],
              CompletedEntry(TodayStr(today), last.req.req.action_type))

(***************************************************************************)
(* C2: a user's logs never hold two entries with the same date and the     *)
(* same action type, "reflection" included.                                *)
(***************************************************************************)
C2_OneEntryPerDateAndType ==
    \A u \in DOMAIN db :
        \A i, j \in 1..Len(db[u].logs) :
            (/\ db[u].logs[i].date = db[u].logs[j].date
             /\ db[u].logs[i].action_type = db[u].logs[j].action_type)
            => i = j

(***************************************************************************)
(* C3: a user created with the default profile has 0 <= xp < xp_limit      *)
(* after every XP award.  (Checked where every user is created so.)        *)
(***************************************************************************)
C3_XpBelowLimit ==
    \A u \in DOMAIN db : 0 <= db[u].xp /\ db[u].xp < db[u].xp_limit

(***************************************************************************)
(* C4: a login for a username the store already holds leaves the store     *)
(* unchanged and answers with the stored record, not with the body.        *)
(***************************************************************************)
C4_LoginIdempotent ==
    [][\A b \in LoginBodies :
          (/\ Answers([op |-> "login", user |-> b])
           /\ b.username \in DOMAIN db)
          => (/\ db' = db
              /\ last'.status = 200
              /\ last'.body = db[b.username])]_vars

C4_Witness ==
    /\ last.req.op = "login"
    /\ last.status = 200
    /\ last.req.user.username \in DOMAIN db
    /\ last.body = db[last.req.user.username]
    /\ last.body.level # last.req.user.level
    /\ last.body.xp # last.req.user.xp
    /\ last.body.logs # last.req.user.logs

(***************************************************************************)
(* C5: a successful complete-task on a record with xp < xp_limit adds 30   *)
(* XP and resolves the level-up once; the response carries the stored xp   *)
(* and level.  As claimed, the new threshold is floor(1.5 * xp_limit).     *)
(***************************************************************************)
Floor15(x) == (3 * x) \div 2

\* 1.5 * x rounded toward zero
Trunc15(x) == IF x >= 0 THEN Floor15(x) ELSE 0 - Floor15(0 - x)

\* the record and the response after a successful complete-task on pre,
\* the new threshold being limit15(pre.xp_limit) when the level goes up
TaskAwarded(pre, post, body, limit15(_)) ==
    /\ IF pre.xp + 30 >= pre.xp_limit
       THEN /\ post.level = pre.level + 1
            /\ post.xp = pre.xp + 30 - pre.xp_limit
            /\ post.xp_limit = limit15(pre.xp_limit)
       ELSE /\ post.level = pre.level
            /\ post.xp = pre.xp + 30
            /\ post.xp_limit = pre.xp_limit
    /\ body.new_xp = post.xp
    /\ body.new_level = post.level

TaskSucceeds(u, c) ==
    /\ Answers(CompleteTaskRequest(u, c))
    /\ last'.status = 200
    /\ u \in DOMAIN db
    /\ db[u].xp < db[u].xp_limit

RequestsOn(u) ==
    {r \in Requests :
        \/ r.op = "get_dashboard" /\ r.username = u
        \/ r.op = "complete_task" /\ r.req.username = u
        \/ r.op = "submit_reflection" /\ r.username = u}

C6_UnknownUserNotFound ==
    [][\A u \in Users :
          (/\ u \notin DOMAIN db
           /\ today' = today /\ threads' = threads
           /\ last'.req \in RequestsOn(u))
          => (last'.status = 404 /\ db' = db)]_vars

C6_Witness ==
    /\ last.req.op = "submit_reflection"
    /\ last.status = 404
    /\ last.req.username \notin DOMAIN db
    /\ DOMAIN db # {}

(***************************************************************************)
(* C7: submit-reflection for an existing user is accepted whatever the     *)
(* user already holds for that date: it appends the request to             *)
(* reflections, one "reflection" entry of 20 XP with the request's date to *)
(* logs, and adds 20 to xp.                                                *)
(***************************************************************************)
C7_ReflectionAlwaysAccepted ==
    [][\A u \in Users, e \in ReflectionEntries :
          (/\ Answers([op |-> "submit_reflection", req |-> e, username |-> u])
           /\ u \in DOMAIN db)
          => (/\ last'.status = 200
              /\ DOMAIN db' = DOMAIN db
              /\ \A v \in DOMAIN db \ {u} : db'[v] = db[v]
              /\ db'[u].reflections = Append(db[u].reflections, e)
              /\ Len(db'[u].logs) = Len(db[u].logs) + 1
              /\ IsPrefix(db[u].logs, db'[u].logs)
              /\ db'[u].logs[Len(db'[u].logs)].date = e.date
              /\ db'[u].logs[Len(db'[u].logs)].action_type = "reflection"
              /\ db'[u].logs[Len(db'[u].logs)].xp = 20
              /\ db'[u].xp = db[u].xp + 20
              /\ db'[u].level = db[u].level
              /\ db'[u].xp_limit = db[u].xp_limit)]_vars

\* the second reflection for one date has been accepted
C7_Witness ==
    /\ last.req.op = "submit_reflection"
    /\ last.status = 200
    /\ last.req.username \in DOMAIN db
    /\ LET user == db[last.req.username]
       IN  /\ Len(user.reflections) = 2
           /\ user.reflections[1].date = user.reflections[2].date
           /\ user.reflections[2] = last.req.req
           /\ Len(user.logs) = 2
           /\ user.logs[1].action_type = "reflection"

(***************************************************************************)
(* C8: the dashboard's locks for today's date string: academic, skill and  *)
(* workout are true exactly when the logs hold an entry of that type dated *)
(* today; reflection is true exactly when the reflections list holds an    *)
(* entry dated today.                                                      *)
(***************************************************************************)
C8_LocksMatchHistory ==
    [][\A u \in Users :
          (/\ Answers([op |-> "get_dashboard", username |-> u])
           /\ u \in DOMAIN db)
          => (/\ last'.status = 200
              /\ \A c \in {"academic", "skill", "workout"} :
                    last'.body.locks[c]
                    <=> \E i \in 1..Len(db[u].logs) :
                            /\ db[u].logs[i].date = TodayStr(today)
                            /\ db[u].logs[i].action_type = c
              /\ last'.body.locks["reflection"]
                 <=> \E i \in 1..Len(db[u].reflections) :
                         db[u].reflections[i].date = TodayStr(today))]_vars

\* a "reflection" entry dated today is logged, no reflection is stored:
\* the reflection lock is open while another lock is closed
C8_Witness ==
    /\ last.req.op = "get_dashboard"
    /\ last.status = 200
    /\ last.body.user = db[last.req.username]
    /\ last.body.progression.date_str = TodayStr(today)
    /\ last.body.locks["academic"]
    /\ ~last.body.locks["skill"]
    /\ ~last.body.locks["reflection"]
    /\ \E i \in 1..Len(last.body.user.logs) :
          /\ last.body.user.logs[i].date = TodayStr(today)
          /\ last.body.user.logs[i].action_type = "reflection"

(***************************************************************************)
(* C9: in every step a stored user stays stored, and the logs and the      *)
(* reflections before the step are a prefix of those after it.             *)
(***************************************************************************)
C9_HistoryOnlyGrows ==
    [][\A u \in DOMAIN db :
          /\ u \in DOMAIN db'
          /\ IsPrefix(db[u].logs, db'[u].logs)
          /\ IsPrefix(db[u].reflections, db'[u].reflections)]_vars

C9_Witness ==
    \E u \in DOMAIN db :
        /\ Len(db[u].logs) = 2
        /\ Len(db[u].reflections) = 1
        /\ db[u].logs[1].action_type = "academic"
        /\ db[u].logs[2].action_type = "reflection"

(***************************************************************************)
(* C10: with two requests in flight, save_db writes the finishing thread's *)
(* copy over the whole file: what the other request saved since this one   *)
(* loaded is gone, for the same user and for any other user, and both      *)
(* requests have answered success.                                         *)
(***************************************************************************)
\* the user a request is about
Target(r) ==
    CASE r.op = "login"         -> r.user.username
      [] r.op = "complete_task" -> r.req.username
      [] OTHER                  -> r.username

\* thread t finishes, in this step, a request that called save_db
FinishesSaving(t) ==
    /\ threads[t].pc = "loaded"
    /\ threads'[t].pc = "done"
    /\ threads'[t].status = 200
    /\ \/ threads[t].req.op \in {"complete_task", "submit_reflection"}
       \/ /\ threads[t].req.op = "login"
          /\ Target(threads[t].req) \notin DOMAIN threads[t].mem

C10_LastWriteWins ==
    [][\A t \in Threads :
          FinishesSaving(t)
          => LET snapshot == threads[t].mem
                 u        == Target(threads[t].req)
             IN  /\ DOMAIN db' = DOMAIN snapshot \cup {u}
                 /\ \A v \in DOMAIN snapshot \ {u} : db'[v] = snapshot[v]
                 /\ threads[t].req.op # "login"
                    => /\ Len(db'[u].logs) = Len(snapshot[u].logs) + 1
                       /\ IsPrefix(snapshot[u].logs, db'[u].logs)]_vars

\* same user: a complete-task and a submit-reflection have both answered
\* success, and the stored record holds one log entry and one award
C10_Witness ==
    \E t1, t2 \in Threads :
        /\ threads[t1].pc = "done" /\ threads[t1].status = 200
        /\ threads[t2].pc = "done" /\ threads[t2].status = 200
        /\ threads[t1].req.op = "complete_task"
        /\ threads[t2].req.op = "submit_reflection"
        /\ Target(threads[t1].req) = Target(threads[t2].req)
        /\ Target(threads[t1].req) \in DOMAIN db
        /\ Len(db[Target(threads[t1].req)].logs) = 1
        /\ db[Target(threads[t1].req)].xp \in {20, 30}

\* different users: a login that created its user and a complete-task of
\* another user have both answered success, and the new user is not stored
C10_WitnessOtherUser ==
    \E t1, t2 \in Threads :
        /\ threads[t1].pc = "done" /\ threads[t1].status = 200
        /\ threads[t2].pc = "done" /\ threads[t2].status = 200
        /\ threads[t1].req.op = "login"
        /\ threads[t1].body = threads[t1].req.user
        /\ threads[t2].req.op = "complete_task"
        /\ Target(threads[t1].req) # Target(threads[t2].req)
        /\ Target(threads[t1].req) \notin DOMAIN db
        /\ Target(threads[t2].req) \in DOMAIN db
        /\ Len(db[Target(threads[t2].req)].logs) = 1

(***************************************************************************)
(* Vocabulary of the analytics properties.                                 *)
(***************************************************************************)
\* the last answer is the analytics of a stored user (whose history no
\* request of SpecAnalytics changes)
ChartAnswered ==
    /\ last.req.op = "get_analytics"
    /\ last.status = 200
    /\ last.req.username \in DOMAIN db

ChartedUser == db[last.req.username]

RECURSIVE SumXp(_)
SumXp(logs) == IF logs = <<>> THEN 0 ELSE Head(logs).xp + SumXp(Tail(logs))

\* the place sorting gives entry i of seq, when less(a, b) orders the dates:
\* after the entries of smaller date and the earlier entries of equal date
Place(seq, i, less(_, _)) ==
    1 + Cardinality({j \in 1..Len(seq) :
                        \/ less(seq[j].date, seq[i].date)
                        \/ /\ j < i
                           /\ ~less(seq[i].date, seq[j].date)})

\* the xp of the entries sorting places at k or before
XpUpTo(seq, k, less(_, _)) ==
    SumXp(SelectSeq([i \in 1..Len(seq) |->
                        IF Place(seq, i, less) <= k THEN seq[i]
                        ELSE [seq[i] EXCEPT !.xp = 0]],
                    LAMBDA e : TRUE))

\* the charts of the answer, for the order less of dates
ChartsFollow(less(_, _)) ==
    LET logs        == ChartedUser.logs
        reflections == ChartedUser.reflections
        xp_chart    == last.body.xp_chart
        consistency == last.body.consistency_chart
    IN  /\ Len(xp_chart.labels) = Len(logs)
        /\ Len(xp_chart.data) = Len(logs)
        /\ \A i \in 1..Len(logs) :
              /\ xp_chart.labels[Place(logs, i, less)] = logs[i].date
              /\ xp_chart.data[Place(logs, i, less)]
                 = XpUpTo(logs, Place(logs, i, less), less)
        /\ Len(consistency.labels) = Len(reflections)
        /\ Len(consistency.data) = Len(reflections)
        /\ \A i \in 1..Len(reflections) :
              /\ consistency.labels[Place(reflections, i, less)] = reflections[i].date
              /\ consistency.data[i] = 1

\* the number a string of digits writes
RECURSIVE NumberOf(_, _)
NumberOf(s, acc) ==
    IF s = <<>> THEN acc ELSE NumberOf(Tail(s), 10 * acc + (Head(s) - 48))

\* the fields of s between "-" signs, as numbers
RECURSIVE FieldsOf(_, _)
FieldsOf(s, field) ==
    IF s = <<>> THEN <<NumberOf(field, 0)>>
    ELSE IF Head(s) = 45 THEN <<NumberOf(field, 0)>> \o FieldsOf(Tail(s), <<>>)
    ELSE FieldsOf(Tail(s), Append(field, Head(s)))

\* the calendar day a year-month-day string names
DayNamed(s) ==
    LET f == FieldsOf(s, <<>>) IN (f[1] * 12 + f[2]) * 31 + f[3]

CalendarLess(s, t) == DayNamed(s) < DayNamed(t)

(***************************************************************************)
(* C11: when a user's logged xp values are non-negative, the xp_chart data *)
(* of analytics never decreases along the series, and its last value is    *)
(* the sum of the xp of all the user's log entries.                        *)
(***************************************************************************)
C11_CumulativeXp ==
    (/\ ChartAnswered
     /\ \A i \in 1..Len(ChartedUser.logs) : ChartedUser.logs[i].xp >= 0)
    => LET data == last.body.xp_chart.data
       IN  /\ \A i \in 1..(Len(data) - 1) : data[i] <= data[i + 1]
           /\ Len(ChartedUser.logs) > 0
              => /\ Len(data) > 0
                 /\ data[Len(data)] = SumXp(ChartedUser.logs)

\* three entries of 30 XP, stored out of date order, charted 30, 60, 90
C11_Witness ==
    /\ ChartAnswered
    /\ Len(ChartedUser.logs) = 3
    /\ \A i \in 1..3 : ChartedUser.logs[i].xp = 30
    /\ StrLess(ChartedUser.logs[2].date, ChartedUser.logs[1].date)
    /\ last.body.xp_chart.data = <<30, 60, 90>>

(***************************************************************************)
(* C12: analytics gives one xp_chart point per log entry and one           *)
(* consistency_chart point of value 1 per reflection; the labels are the   *)
(* dates in ascending date order, equal dates in append order; the k-th    *)
(* xp_chart value is the xp of the first k entries in that order; no       *)
(* history gives empty series.  The date order is that of the calendar     *)
(* days the labels name.                                                   *)
(***************************************************************************)
C12_ChartsInCalendarOrder == ChartAnswered => ChartsFollow(CalendarLess)

(***************************************************************************)
(* Vocabulary of the progression properties.                               *)
(***************************************************************************)
DashboardRequest(u) == [op |-> "get_dashboard", username |-> u]

\* the latest answer is a dashboard
DashboardShown(answer) == answer.req.op = "get_dashboard" /\ answer.status = 200

\* a step in which a dashboard is answered
ShowsDashboard == Answers(DashboardRequest("u1")) /\ last'.status = 200

\* the whole weeks since the start, none before it
WeeksInto(now) == IF now <= 0 THEN 0 ELSE now \div 7

(***************************************************************************)
(* C13: the gym_sets of the progression never decrease as the clock        *)
(* advances (a later dashboard never shows fewer sets than an earlier      *)
(* one), and they are always at least 3 and at most 6.                     *)
(***************************************************************************)
C13_GymSetsMonotoneAndBounded ==
    [][ShowsDashboard
       => /\ last'.body.progression.gym_sets \in 3..6
          /\ DashboardShown(last)
             => last'.body.progression.gym_sets >= last.body.progression.gym_sets]_vars

\* a dashboard of week 12 or later, where 3 + weeks // 3 is above the cap
C13_Witness ==
    /\ DashboardShown(last)
    /\ last.body.progression.weeks_passed >= 12
    /\ last.body.progression.gym_sets = 6

(***************************************************************************)
(* C14: gym_sets is min(6, 3 + weeks_passed // 3) for weeks_passed the     *)
(* whole weeks since the start: 3 in weeks 0 to 2, one more at weeks 3, 6  *)
(* and 9, and 6 from week 9 on.                                            *)
(***************************************************************************)
C14_GymSetsSchedule ==
    [][ShowsDashboard
       => LET weeks == WeeksInto(today)
              sets  == last'.body.progression.gym_sets
          IN  /\ last'.body.progression.weeks_passed = weeks
              /\ sets = Min(6, 3 + (weeks \div 3))
              /\ sets = IF weeks <= 2 THEN 3
                        ELSE IF weeks <= 5 THEN 4
                        ELSE IF weeks <= 8 THEN 5
                        ELSE 6]_vars

\* the first step of the schedule: week 3 shows 4 sets
C14_Witness ==
    /\ DashboardShown(last)
    /\ last.body.progression.weeks_passed = 3
    /\ last.body.progression.gym_sets = 4

(***************************************************************************)
(* C15: phase_index is 0 in January of the start year and before the       *)
(* start, 1 in February, 2 in March, 3 from April to December and in every *)
(* later year; it never decreases as the clock advances.  (The start year  *)
(* 2026 is not a leap year: January is days 0 to 30, February 31 to 58,    *)
(* March 59 to 89.)                                                        *)
(***************************************************************************)
C15_PhaseSchedule ==
    [][ShowsDashboard
       => LET phase == last'.body.progression.phase_index
          IN  /\ phase = IF today <= 30 THEN 0
                         ELSE IF today <= 58 THEN 1
                         ELSE IF today <= 89 THEN 2
                         ELSE 3
              /\ DashboardShown(last)
                 => phase >= last.body.progression.phase_index]_vars

\* a dashboard of January of the next year shows phase 3
C15_Witness ==
    /\ DashboardShown(last)
    /\ last.body.progression.days_passed \in 365..395
    /\ DateOf(last.body.progression.days_passed).month = 1
    /\ last.body.progression.phase_index = 3

(***************************************************************************)
(* C16: for every stored user and every category c, a complete-task of c   *)
(* is rejected with the conflict error (400) if and only if the dashboard  *)
(* read in the same state on the same day reports locks[c] true.           *)
(***************************************************************************)
C16_GateAgreesWithDashboard ==
    [][\A u \in Users, c \in ActionTypes :
          (/\ Answers(CompleteTaskRequest(u, c))
           /\ u \in DOMAIN db)
          => (last'.status = 400
              <=> get_dashboard(db, u, today).body.locks[c])]_vars

(***************************************************************************)
(* C17: the lock is per calendar day: a successful complete-task of c on   *)
(* day d never makes a complete-task of c on a later day d' be rejected    *)
(* with a conflict, for every pair of distinct days, the days before the   *)
(* campaign start included.  When the clock moves to a new day, every      *)
(* completion in the logs was made on an earlier day, so no complete-task  *)
(* of the new day is rejected.                                             *)
(***************************************************************************)
C17_NewDayUnlocks ==
    [][\A u \in Users, c \in ActionTypes \ {"reflection"} :
          (today' > today /\ u \in DOMAIN db)
          => complete_task(db, [username |-> u, action_type |-> c], today').status # 400]_vars

\* C17 as amended: the same for every new day after the campaign start
\* date; the days up to the start date are all dated as the start date and
\* share its lock
C17_NewDayUnlocksAfterStart ==
    [][\A u \in Users, c \in ActionTypes \ {"reflection"} :
          (today' > today /\ today' > 0 /\ u \in DOMAIN db)
          => complete_task(db, [username |-> u, action_type |-> c], today').status # 400]_vars

\* a category completed on an earlier day is completed again today, a day
\* after the start date
C17_Witness ==
    /\ today > 0
    /\ last.req.op = "complete_task"
    /\ last.status = 200
    /\ last.req.req.username \in DOMAIN db
    /\ LET logs == db[last.req.req.username].logs
           c    == last.req.req.action_type
       IN  /\ c # "reflection"
           /\ Len(logs) = 2
           /\ logs[1].action_type = c
           /\ logs[2] = CompletedEntry(TodayStr(today), c)
           /\ StrLess(logs[1].date, logs[2].date)

(***************************************************************************)
(* The ladder of thresholds of the default profile.                        *)
(***************************************************************************)
\* limit(1) = 100, limit(i + 1) = floor(1.5 * limit(i))
RECURSIVE LimitAt(_)
LimitAt(level) == IF level <= 1 THEN 100 ELSE Floor15(LimitAt(level - 1))

\* limit(1) + ... + limit(level - 1)
RECURSIVE Consumed(_)
Consumed(level) ==
    IF level <= 1 THEN 0 ELSE Consumed(level - 1) + LimitAt(level - 1)

(***************************************************************************)
(* C18: for a user created by login with the default fields, in every      *)
(* stored state reached by requests served one at a time, the xp of all    *)
(* the user's log entries sums to the user's xp plus the thresholds of the *)
(* levels already passed, limit(1) + ... + limit(level - 1).               *)
(***************************************************************************)
C18_XpConserved ==
    \A u \in DOMAIN db :
        SumXp(db[u].logs) = db[u].xp + Consumed(db[u].level)

\* one level passed: 110 XP logged, 100 consumed, 10 left
C18_Witness ==
    /\ "u1" \in DOMAIN db
    /\ db["u1"].level = 2
    /\ db["u1"].xp = 10
    /\ SumXp(db["u1"].logs) = 110
    /\ last.req.op = "complete_task"
    /\ last.status = 200

(***************************************************************************)
(* C19: in every step a stored user's level and xp_limit do not decrease,  *)
(* the level changes by at most 1, the level increases if and only if      *)
(* xp_limit increases, and a user created with the default fields always   *)
(* has the xp_limit got from 100 by x -> floor(1.5 * x) applied level - 1  *)
(* times (it is so at creation, and every step keeps it so).               *)
(***************************************************************************)
\* the user u is created in this step by a login with the default fields
CreatedByDefault(u) ==
    /\ u \notin DOMAIN db
    /\ u \in DOMAIN db'
    /\ last'.req.op = "login"
    /\ last'.req.user = UserProfile(u)

OnLadder(user) == user.xp_limit = LimitAt(user.level)

C19_LevelAndLimitRise ==
    [][\A u \in Users :
          /\ CreatedByDefault(u) => OnLadder(db'[u])
          /\ (u \in DOMAIN db /\ u \in DOMAIN db')
             => /\ db'[u].level >= db[u].level
                /\ db'[u].xp_limit >= db[u].xp_limit
                /\ db'[u].level <= db[u].level + 1
                /\ db'[u].level > db[u].level <=> db'[u].xp_limit > db[u].xp_limit
                /\ OnLadder(db[u]) => OnLadder(db'[u])]_vars

\* C19 as amended: the level never decreases and rises by at most 1; the
\* threshold changes only with the level, to 1.5 * xp_limit rounded toward
\* zero, which is an increase exactly when xp_limit >= 2
C19_LevelAndLimitRiseFromTwo ==
    [][\A u \in Users :
          /\ CreatedByDefault(u) => OnLadder(db'[u])
          /\ (u \in DOMAIN db /\ u \in DOMAIN db')
             => /\ db'[u].level >= db[u].level
                /\ db'[u].level <= db[u].level + 1
                /\ db'[u].level = db[u].level => db'[u].xp_limit = db[u].xp_limit
                /\ db'[u].level > db[u].level
                   => db'[u].xp_limit = Trunc15(db[u].xp_limit)
                /\ db[u].xp_limit >= 2
                   => /\ db'[u].xp_limit >= db[u].xp_limit
                      /\ db'[u].level > db[u].level
                         <=> db'[u].xp_limit > db[u].xp_limit
                /\ OnLadder(db[u]) => OnLadder(db'[u])]_vars

\* the level-up from 2 to 3 on the ladder: 150 becomes 225
C19_Witness ==
    /\ "u1" \in DOMAIN db
    /\ last.req.op = "complete_task"
    /\ last.status = 200
    /\ last.body.new_level = 3
    /\ db["u1"].level = 3
    /\ db["u1"].xp_limit = 225
    /\ OnLadder(db["u1"])

\* a level-up at the threshold 1, which stays 1
C19_WitnessThresholdOne ==
    /\ "u1" \in DOMAIN db
    /\ last.req.op = "complete_task"
    /\ last.status = 200
    /\ last.body.new_level = 2
    /\ db["u1"].level = 2
    /\ db["u1"].xp_limit = 1

(***************************************************************************)
(* C20: however the loads and the saves of complete-task requests          *)
(* interleave, the stored logs of a user created with empty logs never     *)
(* hold two entries with the same date and the same action_type among      *)
(* academic, skill and workout.                                            *)
(***************************************************************************)
C20_NoDuplicateTaskStored ==
    \A u \in DOMAIN db :
        \A i, j \in 1..Len(db[u].logs) :
            (/\ db[u].logs[i].date = db[u].logs[j].date
             /\ db[u].logs[i].action_type = db[u].logs[j].action_type
             /\ db[u].logs[i].action_type \in {"academic", "skill", "workout"})
            => i = j

\* two requests for the same category raced on one day: both answered
\* success, and the file holds this entry once, behind an older entry
C20_Witness ==
    /\ \A t \in Threads :
          /\ threads[t].pc = "done"
          /\ threads[t].status = 200
          /\ threads[t].req = CompleteTaskRequest("u1", "academic")
    /\ "u1" \in DOMAIN db
    /\ Len(db["u1"].logs) = 2
    /\ db["u1"].logs[1].action_type = "skill"
    /\ db["u1"].logs[2] = CompletedEntry(TodayStr(today), "academic")

====
